---- MODULE Spec2Model ----
(***************************************************************************)
(* Model of src/src/path.rs: the Path wrapper around the geometry engine's *)
(* fz_path, its builder methods, the walk callback bridge and Drop/Clone.  *)
(*                                                                         *)
(* The geometry engine itself (mupdf_* / fz_* functions) and the ffi_try!  *)
(* macro are not part of path.rs; the operators named Engine... and        *)
(* ffi_try follow the behaviour the specification document ascribes to     *)
(* them.  Everything else is translated from path.rs.                      *)
(***************************************************************************)
EXTENDS Integers, Sequences, FiniteSets, TLC

\* ------------------------------------------------------------------ bounds
MaxSegs == 4        \* stored segments per path in the builder specification
MaxFailSegs == 2    \* stored segments per path in the failure specification
MaxOwnSegs == 1     \* stored segments per path in the ownership specification
MaxPaths == 2       \* Path values created in the ownership specification
MaxLeaked == 1      \* failing walks per run (each leaves one box behind)

\* ------------------------------------------------------------------ inputs
NULL == 0
Slots == 1..MaxPaths
Handles == 1..MaxPaths

Points == {<<0, 0>>, <<10, 10>>, <<0, 10>>}
Curves == {<<0, 10, 10, 0, 10, 10>>}
CurvesVY == {<<10, 0, 10, 10>>}
Rects == {<<0, 0, 10, 10>>}
Identity == <<1, 0, 0, 1, 0, 0>>
Rot180 == <<-1, 0, 0, -1, 0, 0>>
Matrices == {Identity, Rot180}
RawSegs == << [k |-> "MoveTo", c |-> <<0, 0>>], [k |-> "LineTo", c |-> <<10, 10>>] >>

\* ------------------------------------------------------- geometry engine
Seg(k, c) == [k |-> k, c |-> c]

Unallocated == [st |-> "unalloc", segs |-> <<>>, cur |-> <<0, 0>>, begin |-> <<0, 0>>, cap |-> 0]

\* allocate-empty-path: no segments, current point at the origin
EngineNewPath == [st |-> "alive", segs |-> <<>>, cur |-> <<0, 0>>, begin |-> <<0, 0>>, cap |-> 0]

\* storage grows in steps, so a path usually holds capacity it does not use
GrowCap(s) == IF Len(s.segs) < s.cap THEN s.cap ELSE IF s.cap = 0 THEN 4 ELSE 2 * s.cap

\* append one segment; a failing call leaves the storage as it was
EnginePush(s, seg, cur, begin, fail) ==
    IF fail THEN [s |-> s, err |-> TRUE]
    ELSE [s |-> [s EXCEPT !.segs = Append(s.segs, seg), !.cur = cur,
                          !.begin = begin, !.cap = GrowCap(s)],
          err |-> FALSE]

NoCurrentPoint(s) == s.segs = <<>>

EngineMoveTo(s, x, y, fail) ==
    EnginePush(s, Seg("MoveTo", <<x, y>>), <<x, y>>, <<x, y>>, fail)

EngineLineTo(s, x, y, fail) ==
    EnginePush(s, Seg("LineTo", <<x, y>>), <<x, y>>, s.begin, fail \/ NoCurrentPoint(s))

EngineCurveTo(s, c, fail) ==
    EnginePush(s, Seg("CurveTo", c), <<c[5], c[6]>>, s.begin, fail \/ NoCurrentPoint(s))

EngineCurveToV(s, c, fail) ==
    EnginePush(s, Seg("CurveToV", c), <<c[3], c[4]>>, s.begin, fail \/ NoCurrentPoint(s))

EngineCurveToY(s, c, fail) ==
    EnginePush(s, Seg("CurveToY", c), <<c[3], c[4]>>, s.begin, fail \/ NoCurrentPoint(s))

EngineRectTo(s, r, fail) ==
    EnginePush(s, Seg("RectTo", r), <<r[1], r[2]>>, <<r[1], r[2]>>, fail)

EngineClosePath(s, fail) ==
    EnginePush(s, Seg("Close", <<>>), s.begin, s.begin, fail \/ NoCurrentPoint(s))

Apply(m, x, y) == <<m[1] * x + m[3] * y + m[5], m[2] * x + m[4] * y + m[6]>>

RECURSIVE ApplyAll(_, _)
ApplyAll(m, c) ==
    IF Len(c) < 2 THEN <<>>
    ELSE Apply(m, c[1], c[2]) \o ApplyAll(m, SubSeq(c, 3, Len(c)))

EngineTransform(s, m, fail) ==
    IF fail THEN [s |-> s, err |-> TRUE]
    ELSE [s |-> [s EXCEPT !.segs = [i \in 1..Len(s.segs) |->
                                       Seg(s.segs[i].k, ApplyAll(m, s.segs[i].c))],
                          !.cur = Apply(m, s.cur[1], s.cur[2]),
                          !.begin = Apply(m, s.begin[1], s.begin[2])],
          err |-> FALSE]

EngineTrim(s, fail) ==
    IF fail THEN [s |-> s, err |-> TRUE]
    ELSE [s |-> [s EXCEPT !.cap = Len(s.segs)], err |-> FALSE]

EngineClone(s, fail) ==
    IF fail THEN [s |-> Unallocated, err |-> TRUE]
    ELSE [s |-> [s EXCEPT !.cap = Len(s.segs)], err |-> FALSE]

EngineCurrentPoint(s) == s.cur

\* release-path: the storage is gone; what it held is no longer defined
EngineDropPath(s) == [Unallocated EXCEPT !.st = "released"]

\* segment-traversal primitive: the hook invocations the engine makes for one
\* stored segment, given the hook table and the current point before it.  A
\* vertical-curve, y-curve or rect segment goes to its own hook when the table
\* populates it and is otherwise expressed through moveto/lineto/curveto/closepath.
Call(fn, a) == [fn |-> fn, a |-> a]

SegCalls(t, seg, cur) ==
    CASE seg.k = "MoveTo" -> << Call(t.moveto, seg.c) >>
      [] seg.k = "LineTo" -> << Call(t.lineto, seg.c) >>
      [] seg.k = "CurveTo" -> << Call(t.curveto, seg.c) >>
      [] seg.k = "Close" -> << Call(t.closepath, <<>>) >>
      [] seg.k = "CurveToV" ->
            IF t.curvetov # "None" THEN << Call(t.curvetov, seg.c) >>
            ELSE << Call(t.curveto, cur \o seg.c) >>
      [] seg.k = "CurveToY" ->
            IF t.curvetoy # "None" THEN << Call(t.curvetoy, seg.c) >>
            ELSE << Call(t.curveto, seg.c \o <<seg.c[3], seg.c[4]>>) >>
      [] seg.k = "RectTo" ->
            IF t.rectto # "None" THEN << Call(t.rectto, seg.c) >>
            ELSE << Call(t.moveto, <<seg.c[1], seg.c[2]>>),
                    Call(t.lineto, <<seg.c[3], seg.c[2]>>),
                    Call(t.lineto, <<seg.c[3], seg.c[4]>>),
                    Call(t.lineto, <<seg.c[1], seg.c[4]>>),
                    Call(t.closepath, <<>>) >>

SegEnd(seg, cur, begin) ==
    CASE seg.k \in {"MoveTo", "LineTo", "RectTo"} -> <<seg.c[1], seg.c[2]>>
      [] seg.k = "CurveTo" -> <<seg.c[5], seg.c[6]>>
      [] seg.k \in {"CurveToV", "CurveToY"} -> <<seg.c[3], seg.c[4]>>
      [] seg.k = "Close" -> begin

SegBegin(seg, begin) ==
    IF seg.k \in {"MoveTo", "RectTo"} THEN <<seg.c[1], seg.c[2]>> ELSE begin

RECURSIVE WalkCalls(_, _, _, _, _)
WalkCalls(t, segs, i, cur, begin) ==
    IF i > Len(segs) THEN <<>>
    ELSE SegCalls(t, segs[i], cur)
         \o WalkCalls(t, segs, i + 1, SegEnd(segs[i], cur, SegBegin(segs[i], begin)),
                      SegBegin(segs[i], begin))

\* a failing traversal has made the first n hook invocations, n unspecified
EngineWalk(s, t, fail, n) ==
    LET calls == WalkCalls(t, s.segs, 1, <<0, 0>>, <<0, 0>>)
    IN  IF fail THEN [calls |-> SubSeq(calls, 1, n), err |-> TRUE]
        ELSE [calls |-> calls, err |-> FALSE]

\* ffi_try!: an engine error makes the enclosing method return Err at once
ffi_try(r) == ~r.err

\* ------------------------------------------------------------ path.rs
\* the visitor method each extern "C" callback invokes
Event(k, c) == [k |-> k, c |-> c]

path_walk_move_to(a) == Event("move_to", <<a[1], a[2]>>)

\* mutant: the lineto callback forwards to the visitor's move_to
path_walk_line_to_as_move(a) == Event("move_to", <<a[1], a[2]>>)

path_walk_line_to(a) == Event("line_to", <<a[1], a[2]>>)

path_walk_curve_to(a) == Event("curve_to", <<a[1], a[2], a[3], a[4], a[5], a[6]>>)

path_walk_close(a) == Event("close", <<>>)

\* each callback rebuilds the box from the raw pointer and forgets it: it frees nothing
CallbackBoxFrees == 0

Invoke(call) ==
    CASE call.fn = "path_walk_move_to" -> path_walk_move_to(call.a)
      [] call.fn = "path_walk_line_to" -> path_walk_line_to(call.a)
      [] call.fn = "path_walk_curve_to" -> path_walk_curve_to(call.a)
      [] call.fn = "path_walk_close" -> path_walk_close(call.a)
      [] OTHER -> Event("none", call.a)

\* mutant: the hook table leaves closepath unpopulated
c_walker_without_close ==
    [moveto |-> "path_walk_move_to", lineto |-> "path_walk_line_to",
     curveto |-> "path_walk_curve_to", closepath |-> "None",
     quadto |-> "None", curvetov |-> "None", curvetoy |-> "None", rectto |-> "None"]

\* the fz_path_walker table walk passes to the engine
c_walker ==
    [moveto |-> "path_walk_move_to", lineto |-> "path_walk_line_to",
     curveto |-> "path_walk_curve_to", closepath |-> "path_walk_close",
     quadto |-> "None", curvetov |-> "None", curvetoy |-> "None", rectto |-> "None"]

\* Path::walk: box the visitor, traverse, free the box after a successful traversal
walk(s, fail, n) ==
    LET r == EngineWalk(s, c_walker, fail, n)
        events == [i \in 1..Len(r.calls) |-> Invoke(r.calls[i])]
    IN  [ok |-> ffi_try(r), err |-> r.err, events |-> events,
         frees |-> Len(events) * CallbackBoxFrees + (IF ffi_try(r) THEN 1 ELSE 0)]

\* a &mut self method's pattern: ffi_try!(engine call); Ok(())
Result(r) == [s |-> r.s, ok |-> ffi_try(r), err |-> r.err]

\* the engine hands out the lowest handle not yet allocated
FreshHandle(hp) == CHOOSE h \in DOMAIN hp : hp[h].st = "unalloc" /\ \A g \in DOMAIN hp : hp[g].st = "unalloc" => h <= g

\* Path::new: Self { inner } around a freshly allocated empty path
new(hp, fail) ==
    IF fail THEN [hp |-> hp, inner |-> NULL, ok |-> ffi_try([err |-> TRUE]), err |-> TRUE]
    ELSE [hp |-> [hp EXCEPT ![FreshHandle(hp)] = EngineNewPath], inner |-> FreshHandle(hp),
          ok |-> TRUE, err |-> FALSE]

\* mutant: the clone wraps the handle of the original
try_clone_aliasing(hp, h, fail) == [hp |-> hp, inner |-> h, ok |-> TRUE, err |-> FALSE]

\* Path::try_clone: Self { inner } around the engine's deep copy of self.inner
try_clone(hp, h, fail) ==
    LET r == EngineClone(hp[h], fail)
    IN  IF r.err THEN [hp |-> hp, inner |-> NULL, ok |-> ffi_try(r), err |-> TRUE]
        ELSE [hp |-> [hp EXCEPT ![FreshHandle(hp)] = r.s], inner |-> FreshHandle(hp),
              ok |-> TRUE, err |-> FALSE]

\* Path::from_raw: Self { inner: ptr }
from_raw(ptr) == ptr

\* Path::current_point: one engine call with no error channel, converted to a Point
current_point(s) == EngineCurrentPoint(s)

\* mutant: x and y are passed to the engine in the wrong order
move_to_swapped(s, x, y, fail) == Result(EngineMoveTo(s, y, x, fail))

move_to(s, x, y, fail) == Result(EngineMoveTo(s, x, y, fail))

\* mutant: the engine's error is dropped and Ok(()) returned
line_to_ignoring_error(s, x, y, fail) ==
    [s |-> EngineLineTo(s, x, y, fail).s, ok |-> TRUE, err |-> EngineLineTo(s, x, y, fail).err]

line_to(s, x, y, fail) == Result(EngineLineTo(s, x, y, fail))

curve_to(s, c, fail) == Result(EngineCurveTo(s, c, fail))

curve_to_v(s, c, fail) == Result(EngineCurveToV(s, c, fail))

curve_to_y(s, c, fail) == Result(EngineCurveToY(s, c, fail))

rect(s, r, fail) == Result(EngineRectTo(s, r, fail))

close(s, fail) == Result(EngineClosePath(s, fail))

\* mutant: the engine's error is dropped and Ok(()) returned
transform_ignoring_error(s, m, fail) ==
    [s |-> EngineTransform(s, m, fail).s, ok |-> TRUE, err |-> EngineTransform(s, m, fail).err]

transform(s, m, fail) == Result(EngineTransform(s, m, fail))

\* mutant: trim calls the engine's closepath
trim_calling_closepath(s, fail) == Result(EngineClosePath(s, fail))

\* mutant: the engine's error is dropped and Ok(()) returned
trim_ignoring_error(s, fail) ==
    [s |-> EngineTrim(s, fail).s, ok |-> TRUE, err |-> EngineTrim(s, fail).err]

trim(s, fail) == Result(EngineTrim(s, fail))

\* mutant: drop never calls fz_drop_path
DropReleases_never(inner) == FALSE

\* Drop: release the storage unless the handle is null
DropReleases(inner) == inner # NULL

\* ------------------------------------------------------------------ state
VARIABLES
    paths,          \* Path values: lifetime, inner handle, and the caller's record of its calls
    heap,           \* the engine's path storage, by handle
    releases,       \* fz_drop_path calls made on each handle
    uaf,            \* an engine call was made on storage that is not alive
    last,           \* the last method call and what it returned
    boxLive,        \* visitor boxes allocated by walk and not freed
    boxDoubleFree   \* a visitor box was freed more than once

vars == <<paths, heap, releases, uaf, last, boxLive, boxDoubleFree>>

NoPath == [st |-> "none", inner |-> NULL, pure |-> FALSE, log |-> <<>>, src |-> 0]

Ret(op, p, ok, err, val) == [op |-> op, p |-> p, ok |-> ok, err |-> err, val |-> val]

Init ==
    /\ paths = [p \in Slots |-> NoPath]
    /\ heap = [h \in Handles |-> Unallocated]
    /\ releases = [h \in Handles |-> 0]
    /\ uaf = FALSE
    /\ last = Ret("init", 0, TRUE, FALSE, <<>>)
    /\ boxLive = 0
    /\ boxDoubleFree = FALSE

\* a panic (Clone::clone unwrapping an Err) ends the program
Running == last.op # "panic"

\* a Path value the caller holds and whose handle the engine may dereference
Usable(p) == paths[p].st = "live" /\ paths[p].inner # NULL

HasFreeSlot == \E q \in Slots : paths[q].st = "none"

FreeSlot == CHOOSE q \in Slots : paths[q].st = "none" /\ \A r \in Slots : paths[r].st = "none" => q <= r

Store(p) == heap[paths[p].inner]

\* ---------------------------------------------------------------- actions
New(fail) ==
    /\ Running /\ HasFreeSlot
    /\ LET r == new(heap, fail)
           q == FreeSlot
       IN  /\ heap' = r.hp
           /\ paths' = IF r.ok
                       THEN [paths EXCEPT ![q] = [st |-> "live", inner |-> r.inner,
                                                  pure |-> TRUE, log |-> <<>>, src |-> 0]]
                       ELSE paths
           /\ last' = Ret("new", IF r.ok THEN q ELSE 0, r.ok, r.err, <<>>)
    /\ UNCHANGED <<releases, uaf, boxLive, boxDoubleFree>>

\* try_clone, and clone (unwrap = TRUE), which panics where try_clone returns Err
Clone(p, unwrap, fail) ==
    /\ Running /\ Usable(p) /\ HasFreeSlot
    /\ LET r == try_clone(heap, paths[p].inner, fail)
           q == FreeSlot
       IN  /\ heap' = r.hp
           /\ paths' = IF r.ok
                       THEN [paths EXCEPT ![q] = [st |-> "live", inner |-> r.inner,
                                                  pure |-> FALSE, log |-> <<>>, src |-> p]]
                       ELSE paths
           /\ last' = Ret(IF unwrap /\ ~r.ok THEN "panic" ELSE "try_clone",
                          IF r.ok THEN q ELSE 0, r.ok, r.err, <<p>>)
    /\ uaf' = (uaf \/ Store(p).st # "alive")
    /\ UNCHANGED <<releases, boxLive, boxDoubleFree>>

\* from_raw on a null pointer, or on a path the engine has just built and hands over
FromRaw(null) ==
    /\ Running /\ HasFreeSlot
    /\ LET h == FreshHandle(heap)
           q == FreeSlot
       IN  /\ heap' = IF null THEN heap
                      ELSE [heap EXCEPT ![h] = [st |-> "alive", segs |-> RawSegs,
                                                cur |-> <<10, 10>>, begin |-> <<0, 0>>,
                                                cap |-> 4]]
           /\ paths' = [paths EXCEPT ![q] = [st |-> "live",
                                             inner |-> from_raw(IF null THEN NULL ELSE h),
                                             pure |-> FALSE, log |-> <<>>, src |-> 0]]
           /\ last' = Ret("from_raw", q, TRUE, FALSE, <<>>)
    /\ UNCHANGED <<releases, uaf, boxLive, boxDoubleFree>>

Drop(p) ==
    /\ Running /\ paths[p].st = "live"
    /\ LET h == paths[p].inner
       IN  IF DropReleases(h)
           THEN /\ releases' = [releases EXCEPT ![h] = @ + 1]
                /\ heap' = [heap EXCEPT ![h] = EngineDropPath(@)]
           ELSE UNCHANGED <<releases, heap>>
    /\ paths' = [paths EXCEPT ![p] = [st |-> "dropped", inner |-> paths[p].inner, pure |-> FALSE,
                                     log |-> <<>>, src |-> 0]]
    /\ last' = Ret("drop", p, TRUE, FALSE, <<>>)
    /\ UNCHANGED <<uaf, boxLive, boxDoubleFree>>

\* a &mut self method: the engine call on self.inner and the Result it returns
Mutate(p, op, a, r, append) ==
    /\ Running /\ Usable(p)
    /\ heap' = [heap EXCEPT ![paths[p].inner] = r.s]
    /\ uaf' = (uaf \/ Store(p).st # "alive")
    /\ paths' = [paths EXCEPT
                   ![p].log = IF r.ok /\ append
                              THEN Append(@, [op |-> op, a |-> a, at |-> current_point(Store(p))])
                              ELSE @,
                   ![p].pure = @ /\ (append \/ ~r.ok)]
    /\ last' = Ret(op, p, r.ok, r.err, IF r.ok THEN a ELSE <<>>)
    /\ UNCHANGED <<releases, boxLive, boxDoubleFree>>

MoveTo(p, pt, fail) == Mutate(p, "move_to", pt, move_to(Store(p), pt[1], pt[2], fail), TRUE)

LineTo(p, pt, fail) == Mutate(p, "line_to", pt, line_to(Store(p), pt[1], pt[2], fail), TRUE)

CurveTo(p, c, fail) == Mutate(p, "curve_to", c, curve_to(Store(p), c, fail), TRUE)

CurveToV(p, c, fail) == Mutate(p, "curve_to_v", c, curve_to_v(Store(p), c, fail), TRUE)

CurveToY(p, c, fail) == Mutate(p, "curve_to_y", c, curve_to_y(Store(p), c, fail), TRUE)

RectTo(p, r, fail) == Mutate(p, "rect", r, rect(Store(p), r, fail), TRUE)

Close(p, fail) == Mutate(p, "close", <<>>, close(Store(p), fail), TRUE)

Transform(p, m, fail) == Mutate(p, "transform", m, transform(Store(p), m, fail), FALSE)

Trim(p, fail) ==
    /\ Running /\ Usable(p)
    /\ LET r == trim(Store(p), fail)
       IN  /\ heap' = [heap EXCEPT ![paths[p].inner] = r.s]
           /\ last' = Ret("trim", p, r.ok, r.err, <<>>)
    /\ uaf' = (uaf \/ Store(p).st # "alive")
    /\ UNCHANGED <<paths, releases, boxLive, boxDoubleFree>>

CurrentPoint(p) ==
    /\ Running /\ Usable(p)
    /\ last' = Ret("current_point", p, TRUE, FALSE, current_point(Store(p)))
    /\ uaf' = (uaf \/ Store(p).st # "alive")
    /\ UNCHANGED <<paths, heap, releases, boxLive, boxDoubleFree>>

Walk(p, fail, n) ==
    /\ Running /\ Usable(p)
    /\ LET w == walk(Store(p), fail, n)
       IN  /\ last' = Ret("walk", p, w.ok, w.err, w.events)
           /\ boxLive' = boxLive + 1 - (IF w.frees > 0 THEN 1 ELSE 0)
           /\ boxDoubleFree' = (boxDoubleFree \/ w.frees > 1)
    /\ uaf' = (uaf \/ Store(p).st # "alive")
    /\ UNCHANGED <<paths, heap, releases>>

\* ----------------------------------------------------------- specifications
CanGrow(p, max) == Usable(p) /\ Len(Store(p).segs) < max /\ Len(paths[p].log) < max

NumCalls(p) == Len(WalkCalls(c_walker, Store(p).segs, 1, <<0, 0>>, <<0, 0>>))

\* one Path built by new() and walked: every append method with every input; the
\* engine fails only where it has to (a segment with no current point)
Next ==
    \/ \E f \in BOOLEAN : paths[1].st = "none" /\ New(f)
    \/ \E pt \in Points : CanGrow(1, MaxSegs) /\ MoveTo(1, pt, FALSE)
    \/ \E pt \in Points : CanGrow(1, MaxSegs) /\ LineTo(1, pt, FALSE)
    \/ \E c \in Curves : CanGrow(1, MaxSegs) /\ CurveTo(1, c, FALSE)
    \/ \E c \in CurvesVY : CanGrow(1, MaxSegs) /\ CurveToV(1, c, FALSE)
    \/ \E c \in CurvesVY : CanGrow(1, MaxSegs) /\ CurveToY(1, c, FALSE)
    \/ \E r \in Rects : CanGrow(1, MaxSegs) /\ RectTo(1, r, FALSE)
    \/ CanGrow(1, MaxSegs) /\ Close(1, FALSE)
    \/ CurrentPoint(1)
    \/ Usable(1) /\ Walk(1, FALSE, 0)
    \/ Drop(1)

Spec == Init /\ [][Next]_vars

\* one Path built by new(): every method, each with and without an engine failure
NextFail ==
    \/ \E f \in BOOLEAN : paths[1].st = "none" /\ New(f)
    \/ \E f \in BOOLEAN : CanGrow(1, MaxFailSegs) /\ MoveTo(1, <<0, 10>>, f)
    \/ \E f \in BOOLEAN : CanGrow(1, MaxFailSegs) /\ LineTo(1, <<10, 10>>, f)
    \/ \E c \in Curves, f \in BOOLEAN : CanGrow(1, MaxFailSegs) /\ CurveTo(1, c, f)
    \/ \E c \in CurvesVY, f \in BOOLEAN : CanGrow(1, MaxFailSegs) /\ CurveToV(1, c, f)
    \/ \E c \in CurvesVY, f \in BOOLEAN : CanGrow(1, MaxFailSegs) /\ CurveToY(1, c, f)
    \/ \E r \in Rects, f \in BOOLEAN : CanGrow(1, MaxFailSegs) /\ RectTo(1, r, f)
    \/ \E f \in BOOLEAN : CanGrow(1, MaxFailSegs) /\ Close(1, f)
    \/ \E m \in Matrices, f \in BOOLEAN : Transform(1, m, f)
    \/ \E f \in BOOLEAN : Trim(1, f)
    \/ CurrentPoint(1)
    \/ Usable(1) /\ Walk(1, FALSE, 0)
    \/ \E n \in 0..(5 * MaxFailSegs) :
          Usable(1) /\ n <= NumCalls(1) /\ boxLive < MaxLeaked /\ Walk(1, TRUE, n)
    \/ Drop(1)

SpecFail == Init /\ [][NextFail]_vars

\* several Path values: construction, cloning, adoption of raw handles, mutation, drop
NextOwn ==
    \/ \E f \in BOOLEAN : New(f)
    \/ \E p \in Slots, u \in BOOLEAN, f \in BOOLEAN : Clone(p, u, f)
    \/ \E null \in BOOLEAN : FromRaw(null)
    \/ \E p \in Slots : Drop(p)
    \/ \E p \in Slots : CanGrow(p, MaxOwnSegs) /\ MoveTo(p, <<0, 10>>, FALSE)
    \/ \E p \in Slots : Transform(p, Rot180, FALSE)
    \/ \E p \in Slots : Trim(p, FALSE)
    \/ \E p \in Slots : Usable(p) /\ Walk(p, FALSE, 0)

SpecOwn == Init /\ [][NextOwn]_vars

\* ------------------------------------------------------------------ claims
Appends == {"move_to", "line_to", "curve_to", "curve_to_v", "curve_to_y", "rect", "close"}
NeedPoint == {"line_to", "curve_to", "curve_to_v", "curve_to_y", "close"}
Mutations == Appends \cup {"transform", "trim"}
Vocabulary == {"move_to", "line_to", "curve_to", "close"}

\* what a caller sees of a path: the events a walk delivers and the current point
Obs(s) == [st |-> s.st, events |-> walk(s, FALSE, 0).events, cur |-> current_point(s)]

\* the walk that has just returned success on a path built only by new() and appends
WalkedPure == last.op = "walk" /\ last.ok /\ paths[last.p].pure

\* the one event an append call stands for; at is current_point() before the call
OneEvent(call) ==
    CASE call.op = "move_to" -> Event("move_to", call.a)
      [] call.op = "line_to" -> Event("line_to", call.a)
      [] call.op = "curve_to" -> Event("curve_to", call.a)
      [] call.op = "curve_to_v" -> Event("curve_to", call.at \o call.a)
      [] call.op = "curve_to_y" -> Event("curve_to", call.a \o <<call.a[3], call.a[4]>>)
      [] call.op = "close" -> Event("close", <<>>)
      [] call.op = "rect" -> Event("rect", call.a)

RectEvents(r) ==
    << Event("move_to", <<r[1], r[2]>>), Event("line_to", <<r[3], r[2]>>),
       Event("line_to", <<r[3], r[4]>>), Event("line_to", <<r[1], r[4]>>),
       Event("close", <<>>) >>

RECURSIVE Replay(_, _)
Replay(log, i) ==
    IF i > Len(log) THEN <<>>
    ELSE (IF log[i].op = "rect" THEN RectEvents(log[i].a) ELSE << OneEvent(log[i]) >>)
         \o Replay(log, i + 1)

Count(seq, ks) == Cardinality({i \in 1..Len(seq) : seq[i].k \in ks})

CountOps(log, ops) == Cardinality({i \in 1..Len(log) : log[i].op \in ops})

\* C1 as stated: a successful walk of a path built by new() and append calls
\* delivers exactly one event per append call, in call order, each of the kind and
\* with the coordinates of its call.
C1_OneEventPerAppend ==
    WalkedPure =>
        /\ Len(last.val) = Len(paths[last.p].log)
        /\ \A i \in 1..Len(last.val) :
              \/ paths[last.p].log[i].op = "rect" /\ last.val[i].k \in Vocabulary
              \/ last.val[i] = OneEvent(paths[last.p].log[i])

\* C1 amended: a successful walk of a path built by new() and append calls delivers
\* the calls' events in call order and nothing else: one event of the matching kind
\* and coordinates for each move_to, line_to, curve_to, curve_to_v, curve_to_y and
\* close, and for each rect its closed subpath move_to, line_to, line_to, line_to,
\* close; an empty path delivers no event.
C1_WalkReplaysAppends ==
    WalkedPure => last.val = Replay(paths[last.p].log, 1)

\* C1 witness: move_to(0,0), line_to(10,10), close() walked.
C1_Witness ==
    /\ WalkedPure
    /\ Len(paths[last.p].log) = 3
    /\ last.val = << Event("move_to", <<0, 0>>), Event("line_to", <<10, 10>>),
                     Event("close", <<>>) >>

\* C9: walk drops no geometry: on a path built by new() and append calls every
\* delivered event is a move_to, line_to, curve_to or close; every curve_to,
\* curve_to_v and curve_to_y call shows as a curve_to event ending at its end point,
\* and every rect(x1,y1,x2,y2) call as five consecutive events move_to, line_to,
\* line_to, line_to, close over the four corners of the rectangle.
C9_NoGeometryDropped ==
    WalkedPure =>
        LET log == paths[last.p].log
            ev == last.val
        IN  /\ \A j \in 1..Len(ev) : ev[j].k \in Vocabulary
            /\ Count(ev, {"curve_to"}) = CountOps(log, {"curve_to", "curve_to_v", "curve_to_y"})
            /\ Count(ev, {"close"}) = CountOps(log, {"close", "rect"})
            /\ \A i \in 1..Len(log) :
                  log[i].op \in {"curve_to_v", "curve_to_y"} =>
                      \E j \in 1..Len(ev) :
                          /\ ev[j].k = "curve_to"
                          /\ <<ev[j].c[5], ev[j].c[6]>> = <<log[i].a[3], log[i].a[4]>>
                          /\ \/ <<ev[j].c[1], ev[j].c[2]>> = <<log[i].a[1], log[i].a[2]>>
                             \/ <<ev[j].c[3], ev[j].c[4]>> = <<log[i].a[1], log[i].a[2]>>
            /\ \A i \in 1..Len(log) :
                  log[i].op = "rect" =>
                      \E j \in 1..(Len(ev) - 4) :
                          /\ <<ev[j].k, ev[j + 1].k, ev[j + 2].k, ev[j + 3].k, ev[j + 4].k>>
                                = <<"move_to", "line_to", "line_to", "line_to", "close">>
                          /\ {ev[j].c, ev[j + 1].c, ev[j + 2].c, ev[j + 3].c}
                                = {<<log[i].a[1], log[i].a[2]>>, <<log[i].a[3], log[i].a[2]>>,
                                   <<log[i].a[3], log[i].a[4]>>, <<log[i].a[1], log[i].a[4]>>}

\* C9 witness: a walked path holding a rect and a curve_to_v.
C9_Witness ==
    /\ WalkedPure
    /\ CountOps(paths[last.p].log, {"rect"}) = 1
    /\ CountOps(paths[last.p].log, {"curve_to_v"}) = 1
    /\ Len(last.val) = 6

\* C5: current_point() is (0,0) on a path fresh from new(); called right after a
\* successful move_to(x,y) or line_to(x,y) it returns (x,y); and it changes nothing.
C5_CurrentPoint ==
    /\ [](\A p \in Slots :
             Usable(p) /\ paths[p].pure /\ paths[p].log = <<>>
                => current_point(Store(p)) = <<0, 0>>)
    /\ [][(last'.op = "current_point" /\ last'.p = last.p /\ last.op = "new" /\ last.ok)
             => last'.val = <<0, 0>>]_vars
    /\ [][(/\ last'.op = "current_point" /\ last'.p = last.p
           /\ last.op \in {"move_to", "line_to"} /\ last.ok)
             => (last'.ok /\ last'.val = last.val)]_vars
    /\ [][last'.op = "current_point" => (heap' = heap /\ paths' = paths)]_vars

\* C5 witness: current_point() has returned (0,10) after a move_to or line_to there.
C5_Witness ==
    /\ last.op = "current_point"
    /\ last.val = <<0, 10>>
    /\ Store(last.p).segs[Len(Store(last.p).segs)].c = <<0, 10>>

\* C6: every stored line, curve or close segment has a moveto (or a rect, which
\* opens with one) before it; line_to, curve_to, curve_to_v, curve_to_y and close on
\* a path with no current point return Err; and an append that returns Ok has
\* appended its segment.
C6_MoveToFirst ==
    /\ [](\A p \in Slots :
             Usable(p) =>
                \A i \in 1..Len(Store(p).segs) :
                   Store(p).segs[i].k \notin {"MoveTo", "RectTo"}
                      => \E j \in 1..(i - 1) : Store(p).segs[j].k \in {"MoveTo", "RectTo"})
    /\ [][\A p \in Slots :
             (last'.p = p /\ last'.op \in NeedPoint /\ Usable(p) /\ Store(p).segs = <<>>)
                => (~last'.ok /\ last'.err)]_vars
    /\ [][\A p \in Slots :
             (last'.p = p /\ last'.op \in Appends /\ last'.ok /\ Usable(p))
                => Len(heap'[paths[p].inner].segs) = Len(Store(p).segs) + 1]_vars

\* C6 witness: line_to on the empty path has returned Err.
C6_Witness ==
    /\ last.op = "line_to"
    /\ ~last.ok
    /\ Usable(last.p)
    /\ Store(last.p).segs = <<>>

\* C4: a mutation during which the engine reports a failure returns Err to its
\* caller (no success, no panic) and leaves the segments and the current point as
\* they were before the call.
C4_FailureAtomic ==
    [][\A p \in Slots :
          (last'.p = p /\ last'.op \in Mutations /\ last'.err /\ Usable(p))
             => /\ ~last'.ok
                /\ heap'[paths[p].inner].segs = Store(p).segs
                /\ Obs(heap'[paths[p].inner]) = Obs(Store(p))]_vars

\* C4 witness: transform has failed on a path that holds segments.
C4_Witness ==
    /\ last.op = "transform"
    /\ last.err
    /\ ~last.ok
    /\ Usable(last.p)
    /\ Len(Store(last.p).segs) = 2

\* C7: trim changes neither the events walk delivers nor the current point, and a
\* second trim changes nothing at all.
C7_TrimPure ==
    /\ [][\A p \in Slots :
             (last'.p = p /\ last'.op = "trim" /\ Usable(p))
                => Obs(heap'[paths[p].inner]) = Obs(Store(p))]_vars
    /\ [][(last'.op = "trim" /\ last.op = "trim" /\ last.ok) => heap' = heap]_vars

\* C7 witness: trim has released the unused capacity of a path with two segments.
C7_Witness ==
    /\ last.op = "trim"
    /\ last.ok
    /\ Len(Store(last.p).segs) = 2
    /\ Store(last.p).cap = 2

C10_BoxFreedOnce ==
    boxLive = 0 /\ ~boxDoubleFree

\* one of the two Paths was made by try_clone (or clone) from the other
Related(p, q) == p # q /\ (paths[q].src = p \/ paths[p].src = q)

\* C2: a clone and its source hold different handles, and a mutation or the drop of
\* either leaves what the other shows (walk events, current point) unchanged.
C2_CloneIndependent ==
    /\ [](\A p, q \in Slots :
             (Related(p, q) /\ paths[p].st = "live" /\ paths[q].st = "live")
                => paths[p].inner # paths[q].inner)
    /\ [][\A p, q \in Slots :
             (/\ Related(p, q) /\ paths[p].st = "live" /\ paths[q].st = "live"
              /\ last'.p = p /\ last'.op \in Mutations \cup {"drop"})
                => (/\ paths'[q] = paths[q]
                    /\ Obs(heap'[paths[q].inner]) = Obs(Store(q))
                    /\ heap'[paths[q].inner].st = "alive")]_vars

\* C2 witness: a clone has been appended to and now differs from its source.
C2_Witness ==
    /\ last.op = "move_to"
    /\ last.ok
    /\ paths[last.p].src # 0
    /\ paths[paths[last.p].src].st = "live"
    /\ Obs(Store(last.p)) # Obs(Store(paths[last.p].src))

\* the Paths in lifetime state st that hold handle h
Holders(h, st) == {p \in Slots : paths[p].st = st /\ paths[p].inner = h}

\* C3: no two live Paths hold the same handle; a handle held by a live Path is
\* alive and unreleased; a non-null handle is released exactly once, at the drop of
\* the Path that held it; dropping a Path with a null handle releases nothing; and
\* no engine call is made on released storage.
C3_ExclusiveOwnership ==
    /\ \A p, q \in Slots :
          (p # q /\ paths[p].st = "live" /\ paths[q].st = "live" /\ paths[p].inner # NULL)
             => paths[p].inner # paths[q].inner
    /\ \A h \in Handles :
          /\ releases[h] = Cardinality(Holders(h, "dropped"))
          /\ releases[h] <= 1
          /\ Holders(h, "live") # {} => (heap[h].st = "alive" /\ releases[h] = 0)
          /\ Holders(h, "dropped") # {} => heap[h].st = "released"
    /\ ~uaf

\* C3 witness: a Path with a handle and a Path with a null handle have both been dropped.
C3_Witness ==
    /\ \E p \in Slots : paths[p].st = "dropped" /\ paths[p].inner # NULL
    /\ \E q \in Slots : paths[q].st = "dropped" /\ paths[q].inner = NULL

====
